---- MODULE Spec2Model ----
(***************************************************************************)
(* Streaming protocol and concurrent benchmark harness of stream-yolo.     *)
(*                                                                         *)
(*   py_server/utils/test.py  the load-test harness: main() gathers        *)
(*                            `clients` stream_video(client_id) sessions   *)
(*   py_server/main.py        the detection server: ws_stream() per        *)
(*                            connection, infer() on the default executor  *)
(*   py_server/client.py      the single-session client                    *)
(*                                                                         *)
(* Six specifications:                                                     *)
(*   Spec        test.py with its default arguments against its endpoint   *)
(*   FairSpec    Spec under a fair event loop and a responsive endpoint    *)
(*   SpecVideo   the same as Spec with --video-out                         *)
(*   SpecServer  main.py under one-request-at-a-time clients               *)
(*   SpecClient  client.py against main.py                                 *)
(*   SpecTiming  the arithmetic of one benchmark record                    *)
(*                                                                         *)
(* Times are integers: delay_ms is kept in thousandths of a millisecond    *)
(* (the 3 decimals of round(delay_ms, 3)), fps in thousandths of a frame   *)
(* per second (round(inst_fps, 3)).                                        *)
(***************************************************************************)
EXTENDS Integers, Sequences, FiniteSets, TLC

\* ---- bounds of the model ------------------------------------------------
NumClients == 2        \* args.clients
NumFrames == 2         \* frames the source video holds
MaxDelayUs == 12       \* the short round-trip times go from 0 to this, in us

\* ---- program constants --------------------------------------------------
\* run_in_executor(None, ...) uses the loop's default ThreadPoolExecutor,
\* whose max_workers is min(32, cpu_count + 4): never fewer than 5 threads.
PoolSize == 5

Sessions == 0 .. (NumClients - 1)

\* cv2.imencode's success flag is discarded (`_, buf = ...`): the bytes sent
\* are a JPEG image, or a buffer that does not decode.
Payloads == {"jpeg", "garbage"}

\* (t1 - t0) in microseconds, as time.perf_counter() can measure it.
DelayChoices == {0, 1500}

VARIABLES
    videoOut,        \* args.video_out is set
    outDirOK,        \* out_path.parent.mkdir(...) succeeds
    writerOK,        \* cv2.VideoWriter(...) opens its output file
    pc,              \* test.py stream_video: position of each session
    status,          \* how each session ended
    cap,             \* cv2.VideoCapture of each session
    capPos,          \* frames cap.read() has returned
    writer,          \* cv2.VideoWriter of each session
    idx,             \* stream_video's idx
    bench,           \* stream_video's bench list
    sent,            \* completed ws.send calls
    recvd,           \* completed ws.recv calls
    buf,             \* the encoded frame sent and awaiting its reply
    errlog,          \* client ids of the "[Client i 오류]" lines written
    conn,            \* the websocket connection of each session
    c2s,             \* frames in flight to the server
    s2c,             \* replies in flight to the client
    spc,             \* main.py ws_stream: position of each connection handler
    srvRecvd,        \* completed websocket.receive_bytes calls
    errReplies,      \* {"error": ...} replies sent on each connection
    detReplies,      \* {"detections": ...} replies sent on each connection
    inferCalls,      \* infer() calls started for each connection
    mpc,             \* test.py main: position
    all_benchmarks,  \* main's merged list
    file,            \* the benchmark CSV at BENCH_OUT
    fileWrites,      \* save_benchmark calls
    summary          \* what print_benchmark_summary printed

cfgVars == <<videoOut, outDirOK, writerOK>>
sessVars == <<pc, status, cap, capPos, writer, idx, bench, sent, recvd, buf, errlog>>
netVars == <<conn, c2s, s2c>>
srvVars == <<spc, srvRecvd, errReplies, detReplies, inferCalls>>
mainVars == <<mpc, all_benchmarks, file, fileWrites, summary>>
vars == <<cfgVars, sessVars, netVars, srvVars, mainVars>>

\* ---- pure helpers -------------------------------------------------------
\* n / d, d > 0, rounded to the nearest integer, an exact half upwards.
RoundDiv(n, d) == (2 * n + d) \div (2 * d)

\* The quotient cut off after the third decimal in place of round(.., 3).
InstFpsTruncated(delay_us) ==
    IF delay_us > 0 THEN 1000000000 \div delay_us ELSE 0

\* inst_fps = 1000.0 / delay_ms if delay_ms > 0 else 0.0, then round(.., 3).
\* With delay in microseconds, 1000 / delay_ms = 10^6 / delay_us, and its
\* thousandths are 10^9 / delay_us.
InstFps(delay_us) == IF delay_us > 0 THEN RoundDiv(1000000000, delay_us) ELSE 0

\* The dict appended to bench.
BenchRecord(client_id, frame, delay_us) ==
    [client_id |-> client_id, frame |-> frame,
     delay_ms |-> delay_us, fps |-> InstFps(delay_us)]

RECURSIVE Concat(_, _)
\* for bench in results: all_benchmarks.extend(bench), over results[0..n-1]
Concat(results, n) ==
    IF n = 0 THEN <<>> ELSE Concat(results, n - 1) \o results[n - 1]

RECURSIVE SeqMin(_, _), SeqMax(_, _), SeqSum(_, _)
SeqMin(s, f) ==
    IF Len(s) = 1 THEN s[1][f]
    ELSE LET m == SeqMin(Tail(s), f) IN IF s[1][f] < m THEN s[1][f] ELSE m
SeqMax(s, f) ==
    IF Len(s) = 1 THEN s[1][f]
    ELSE LET m == SeqMax(Tail(s), f) IN IF s[1][f] > m THEN s[1][f] ELSE m
SeqSum(s, f) == IF s = <<>> THEN 0 ELSE s[1][f] + SeqSum(Tail(s), f)

\* print_benchmark_summary: nothing for an empty list, else the count and
\* min / max / sum (the mean is sum / count) of delay_ms and fps.
Summarize(records) ==
    IF records = <<>> THEN <<>>
    ELSE << [count |-> Len(records),
             min_delay |-> SeqMin(records, "delay_ms"),
             max_delay |-> SeqMax(records, "delay_ms"),
             sum_delay |-> SeqSum(records, "delay_ms"),
             min_fps |-> SeqMin(records, "fps"),
             max_fps |-> SeqMax(records, "fps"),
             sum_fps |-> SeqSum(records, "fps")] >>

\* csv.DictWriter(f, fieldnames=[...]) of test.py's save_benchmark
FieldNames == <<"client_id", "frame", "delay_ms", "fps">>

\* A writer that loses the last row.
SavedFileTruncated(records) ==
    [exists |-> TRUE, header |-> FieldNames,
     rows |-> SubSeq(records, 1, Len(records) - 1)]

\* save_benchmark: open(path, "w"), writeheader(), writerows(records)
SavedFile(records) == [exists |-> TRUE, header |-> FieldNames, rows |-> records]

NoFile == [exists |-> FALSE, header |-> <<>>, rows |-> <<>>]

\* ---- initial state --------------------------------------------------------
\* Nothing has run yet: no session has started, nothing is in flight, the
\* server has no handler, main has merged nothing.
InitIdle ==
    /\ pc = [i \in Sessions |-> "start"]
    /\ status = [i \in Sessions |-> "running"]
    /\ cap = [i \in Sessions |-> "none"]
    /\ capPos = [i \in Sessions |-> 0]
    /\ writer = [i \in Sessions |-> "none"]
    /\ idx = [i \in Sessions |-> 0]
    /\ bench = [i \in Sessions |-> <<>>]
    /\ sent = [i \in Sessions |-> 0]
    /\ recvd = [i \in Sessions |-> 0]
    /\ buf = [i \in Sessions |-> "none"]
    /\ errlog = {}
    /\ c2s = [i \in Sessions |-> <<>>]
    /\ s2c = [i \in Sessions |-> <<>>]
    /\ spc = [i \in Sessions |-> "none"]
    /\ srvRecvd = [i \in Sessions |-> 0]
    /\ errReplies = [i \in Sessions |-> 0]
    /\ detReplies = [i \in Sessions |-> 0]
    /\ inferCalls = [i \in Sessions |-> 0]
    /\ mpc = "gather"
    /\ all_benchmarks = <<>>
    /\ file = NoFile
    /\ fileWrites = 0
    /\ summary = <<>>

\* The harness as started by default: --video-out is omitted, no annotated
\* video is written.
Init ==
    /\ videoOut = FALSE
    /\ outDirOK = TRUE
    /\ writerOK = TRUE
    /\ conn = [i \in Sessions |-> "none"]
    /\ InitIdle

\* The harness started with --video-out: the directory of the output video
\* can be created, or mkdir raises.
InitVideo ==
    /\ videoOut = TRUE
    /\ outDirOK \in BOOLEAN
    /\ writerOK \in BOOLEAN
    /\ conn = [i \in Sessions |-> "none"]
    /\ InitIdle

\* A pipelined client would go back to the loop top without awaiting the reply.
AfterSendPipelined(i) == "loop"

\* After `await ws.send(...)` the next statement is `msg = await ws.recv()`.
AfterSend(i) == "recv"

\* A handler that logs the exception and stays in the loop: the exception
\* ends no session.
AbortedNone(i) == {}

\* Without the handler the exception would leave the task, gather would
\* re-raise it in main and asyncio.run would cancel every other session.
AbortedAll(i) == Sessions

\* `except Exception` sits inside stream_video: the exception of session i
\* ends session i and no other.
Aborted(i) == {i}

\* The handler without the `finally` block: the error line is written and
\* nothing is released.
AbortNoRelease(i, why) ==
    /\ pc' = [j \in Sessions |-> IF j \in Aborted(i) THEN "done" ELSE pc[j]]
    /\ status' = [j \in Sessions |->
                    IF j = i THEN why
                    ELSE IF j \in Aborted(i) /\ pc[j] # "done" THEN "cancelled"
                    ELSE status[j]]
    /\ errlog' = errlog \cup {i}
    /\ UNCHANGED <<cap, writer>>
    /\ buf' = [buf EXCEPT ![i] = "none"]

\* The exception path of stream_video: `except Exception` writes the error
\* line with the client id, `finally` closes the bar and releases cap and
\* writer, and the function returns bench as it stands.
Abort(i, why) ==
    /\ pc' = [j \in Sessions |-> IF j \in Aborted(i) THEN "done" ELSE pc[j]]
    /\ status' = [j \in Sessions |->
                    IF j = i THEN why
                    ELSE IF j \in Aborted(i) /\ pc[j] # "done" THEN "cancelled"
                    ELSE status[j]]
    /\ errlog' = errlog \cup {i}
    /\ cap' = [cap EXCEPT ![i] = "released"]
    /\ writer' = [writer EXCEPT ![i] = IF @ = "none" THEN "none" ELSE "released"]
    /\ buf' = [buf EXCEPT ![i] = "none"]

\* The 0-based loop index recorded as it is.
FrameNoZeroBased(i) == idx[i]

\* "frame": idx + 1
FrameNo(i) == idx[i] + 1

\* Lines 85-117, up to the await of websockets.connect.
StartSession(i) ==
    /\ pc[i] = "start"
    /\ \/ \* cap.isOpened() is false: return []
          /\ pc' = [pc EXCEPT ![i] = "done"]
          /\ status' = [status EXCEPT ![i] = "nosource"]
          /\ cap' = [cap EXCEPT ![i] = "unopened"]
          /\ UNCHANGED <<writer, conn>>
       \/ \* out_path.parent.mkdir raises: the exception leaves stream_video
          /\ videoOut /\ ~outDirOK
          /\ pc' = [pc EXCEPT ![i] = "done"]
          /\ status' = [status EXCEPT ![i] = "raised"]
          /\ cap' = [cap EXCEPT ![i] = "open"]
          /\ UNCHANGED <<writer, conn>>
       \/ /\ outDirOK
          /\ pc' = [pc EXCEPT ![i] = "connecting"]
          /\ cap' = [cap EXCEPT ![i] = "open"]
          /\ writer' = [writer EXCEPT ![i] =
                          IF ~videoOut THEN "none"
                          ELSE IF writerOK THEN "open" ELSE "unopened"]
          /\ conn' = [conn EXCEPT ![i] = "connecting"]
          /\ UNCHANGED status
    /\ UNCHANGED <<cfgVars, capPos, idx, bench, sent, recvd, buf, errlog>>
    /\ UNCHANGED <<c2s, s2c, srvVars, mainVars>>

\* websockets.connect raised (refused, handshake timeout): except, finally.
ConnectRefused(i) ==
    /\ pc[i] = "connecting"
    /\ conn[i] = "connecting"
    /\ Abort(i, "refused")
    /\ conn' = [conn EXCEPT ![i] = "closed"]
    /\ UNCHANGED <<cfgVars, capPos, idx, bench, sent, recvd, c2s, s2c>>
    /\ UNCHANGED <<srvVars, mainVars>>

\* The handshake completed: `as ws`, idx = 0.
Connected(i) ==
    /\ pc[i] = "connecting"
    /\ conn[i] # "connecting"
    /\ pc' = [pc EXCEPT ![i] = "loop"]
    /\ idx' = [idx EXCEPT ![i] = 0]
    /\ UNCHANGED <<cfgVars, status, cap, capPos, writer, bench, sent, recvd, buf, errlog>>
    /\ UNCHANGED <<netVars, srvVars, mainVars>>

\* Loop top to `await ws.send`: cap.read(); break at the end of the source;
\* else resize, imencode, t0, send.
SendFrame(i) ==
    /\ pc[i] = "loop"
    /\ \/ /\ capPos[i] = NumFrames
          /\ pc' = [pc EXCEPT ![i] = "closing"]
          /\ UNCHANGED <<status, cap, capPos, writer, sent, buf, errlog, conn, c2s, s2c>>
       \/ /\ capPos[i] < NumFrames
          /\ conn[i] = "open"
          /\ \E p \in Payloads :
                /\ buf' = [buf EXCEPT ![i] = p]
                /\ c2s' = [c2s EXCEPT ![i] = Append(@, p)]
          /\ capPos' = [capPos EXCEPT ![i] = @ + 1]
          /\ sent' = [sent EXCEPT ![i] = @ + 1]
          /\ pc' = [pc EXCEPT ![i] = AfterSend(i)]
          /\ UNCHANGED <<status, cap, writer, errlog, conn, s2c>>
       \/ \* ws.send raises ConnectionClosed
          /\ capPos[i] < NumFrames
          /\ conn[i] = "closed"
          /\ capPos' = [capPos EXCEPT ![i] = @ + 1]
          /\ Abort(i, "dropped")
          /\ UNCHANGED <<sent, conn, c2s, s2c>>
    /\ UNCHANGED <<cfgVars, idx, bench, recvd>>
    /\ UNCHANGED <<srvVars, mainVars>>

\* An exception handler that records the interrupted frame before it ends
\* the session.
RecvReplyRecordsAbandoned(i) ==
    /\ pc[i] = "recv"
    /\ \/ /\ s2c[i] # <<>>
          /\ s2c' = [s2c EXCEPT ![i] = Tail(@)]
          /\ recvd' = [recvd EXCEPT ![i] = @ + 1]
          /\ \E d \in DelayChoices :
                bench' = [bench EXCEPT ![i] = Append(@, BenchRecord(i, FrameNo(i), d))]
          /\ idx' = [idx EXCEPT ![i] = @ + 1]
          /\ buf' = [buf EXCEPT ![i] = "none"]
          /\ pc' = [pc EXCEPT ![i] = "loop"]
          /\ UNCHANGED <<status, cap, writer, errlog>>
       \/ /\ s2c[i] = <<>>
          /\ conn[i] = "closed"
          /\ Abort(i, "dropped")
          /\ bench' = [bench EXCEPT ![i] = Append(@, BenchRecord(i, FrameNo(i), 0))]
          /\ UNCHANGED <<s2c, recvd, idx>>
    /\ UNCHANGED <<cfgVars, capPos, sent, conn, c2s>>
    /\ UNCHANGED <<srvVars, mainVars>>

\* `msg = await ws.recv()` to the end of the loop body: t1, delay_ms,
\* inst_fps, writer.write, bench.append, idx += 1.
RecvReply(i) ==
    /\ pc[i] = "recv"
    /\ \/ /\ s2c[i] # <<>>
          /\ s2c' = [s2c EXCEPT ![i] = Tail(@)]
          /\ recvd' = [recvd EXCEPT ![i] = @ + 1]
          /\ \E d \in DelayChoices :
                bench' = [bench EXCEPT ![i] = Append(@, BenchRecord(i, FrameNo(i), d))]
          /\ idx' = [idx EXCEPT ![i] = @ + 1]
          /\ buf' = [buf EXCEPT ![i] = "none"]
          /\ pc' = [pc EXCEPT ![i] = "loop"]
          /\ UNCHANGED <<status, cap, writer, errlog>>
       \/ \* ws.recv raises ConnectionClosed
          /\ s2c[i] = <<>>
          /\ conn[i] = "closed"
          /\ Abort(i, "dropped")
          /\ UNCHANGED <<s2c, recvd, bench, idx>>
    /\ UNCHANGED <<cfgVars, capPos, sent, conn, c2s>>
    /\ UNCHANGED <<srvVars, mainVars>>

\* Leaving `async with` after break closes the connection; then finally
\* releases and bench is returned.
CloseSession(i) ==
    /\ pc[i] = "closing"
    /\ pc' = [pc EXCEPT ![i] = "done"]
    /\ status' = [status EXCEPT ![i] = "completed"]
    /\ cap' = [cap EXCEPT ![i] = "released"]
    /\ writer' = [writer EXCEPT ![i] = IF @ = "none" THEN "none" ELSE "released"]
    /\ conn' = [conn EXCEPT ![i] = "closed"]
    /\ c2s' = [c2s EXCEPT ![i] = <<>>]
    /\ UNCHANGED <<cfgVars, capPos, idx, bench, sent, recvd, buf, errlog, s2c>>
    /\ UNCHANGED <<srvVars, mainVars>>

\* What stream_video(i) returns: [] when the source did not open, else bench.
ReturnValue(i) == IF status[i] = "nosource" THEN <<>> ELSE bench[i]

\* ---- the transport --------------------------------------------------------
\* One connection object shared by the sessions: its loss closes them all.
DropShared(i) ==
    /\ conn[i] = "open"
    /\ pc[i] # "done"
    /\ conn' = [j \in Sessions |-> "closed"]
    /\ c2s' = [j \in Sessions |-> <<>>]
    /\ s2c' = [j \in Sessions |-> <<>>]
    /\ UNCHANGED <<cfgVars, sessVars, srvVars, mainVars>>

\* The connection is lost (peer reset, network failure): both ends see it
\* closed and what was in flight is gone.
Drop(i) ==
    /\ conn[i] = "open"
    /\ pc[i] # "done"
    /\ conn' = [conn EXCEPT ![i] = "closed"]
    /\ c2s' = [c2s EXCEPT ![i] = <<>>]
    /\ s2c' = [s2c EXCEPT ![i] = <<>>]
    /\ UNCHANGED <<cfgVars, sessVars, srvVars, mainVars>>

\* ---- the endpoint at WS_URL, as the harness sees it ----------------------
\* The server accepts the connection (ws_stream: await websocket.accept()).
PeerAccept(i) ==
    /\ conn[i] = "connecting"
    /\ conn' = [conn EXCEPT ![i] = "open"]
    /\ UNCHANGED <<cfgVars, sessVars, c2s, s2c, srvVars, mainVars>>

\* One pass of the server's loop, seen from the client: a frame is taken
\* and answered, {"detections": ...} for an image, {"error": ...} otherwise.
PeerReply(i) ==
    /\ conn[i] = "open"
    /\ c2s[i] # <<>>
    /\ c2s' = [c2s EXCEPT ![i] = Tail(@)]
    /\ s2c' = [s2c EXCEPT ![i] =
                 Append(@, IF Head(c2s[i]) = "jpeg" THEN "detections" ELSE "error")]
    /\ UNCHANGED <<cfgVars, sessVars, conn, srvVars, mainVars>>

\* ---- test.py: main() ------------------------------------------------------
\* asyncio.wait(..., return_when=FIRST_COMPLETED) in place of gather.
GatheredFirst == \E i \in Sessions : pc[i] = "done"

\* results = await asyncio.gather(*tasks): every task is done.
Gathered == \A i \in Sessions : pc[i] = "done"

\* `all_benchmarks = bench` in place of extend: the last result alone.
MergeLast(results) == results[NumClients - 1]

\* A merge loop that stops at the first empty result.
MergeStopAtEmpty(results) ==
    LET empty == {i \in Sessions : results[i] = <<>>}
        stop == IF empty = {} THEN NumClients
                ELSE CHOOSE i \in empty : \A j \in empty : i <= j
    IN Concat(results, stop)

\* The results taken from the last task to the first.
MergeReversed(results) ==
    Concat([i \in Sessions |-> results[NumClients - 1 - i]], NumClients)

\* all_benchmarks = []; for bench in results: all_benchmarks.extend(bench)
Merge(results) == Concat(results, NumClients)

\* The exception of a task that raised is re-raised by gather. Every task
\* has taken its first step, where the exception is raised, before main runs
\* again.
MainRaise ==
    /\ mpc = "gather"
    /\ Gathered
    /\ \E i \in Sessions : status[i] = "raised"
    /\ mpc' = "raised"
    /\ UNCHANGED <<cfgVars, sessVars, netVars, srvVars>>
    /\ UNCHANGED <<all_benchmarks, file, fileWrites, summary>>

\* Lines 182-194: extend all_benchmarks with each result in task order; when
\* it is not empty, save_benchmark and print_benchmark_summary.
MainMerge ==
    /\ mpc = "gather"
    /\ Gathered
    /\ \A i \in Sessions : status[i] # "raised"
    /\ LET results == [i \in Sessions |-> ReturnValue(i)]
           merged == Merge(results)
       IN /\ all_benchmarks' = merged
          /\ IF merged # <<>>
               THEN /\ file' = SavedFile(merged)
                    /\ fileWrites' = fileWrites + 1
                    /\ summary' = Summarize(merged)
               ELSE UNCHANGED <<file, fileWrites, summary>>
    /\ mpc' = "done"
    /\ UNCHANGED <<cfgVars, sessVars, netVars, srvVars>>

\* ---- specification of the harness (test.py against its endpoint) ----------
Next ==
    \/ \E i \in Sessions :
          \/ StartSession(i)
          \/ ConnectRefused(i)
          \/ Connected(i)
          \/ SendFrame(i)
          \/ RecvReply(i)
          \/ CloseSession(i)
          \/ Drop(i)
          \/ PeerAccept(i)
          \/ PeerReply(i)
    \/ MainMerge

Spec == Init /\ [][Next]_vars

\* A step of the task stream_video(i) itself.
ClientStep(i) ==
    \/ StartSession(i)
    \/ ConnectRefused(i)
    \/ Connected(i)
    \/ SendFrame(i)
    \/ RecvReply(i)
    \/ CloseSession(i)

\* The event loop runs every task that is ready (its ready queue is
\* first-in first-out), so a task that can step does step, and main resumes
\* once gather is done; websockets.connect gives up after open_timeout
\* (ConnectRefused). The endpoint answers a frame it holds for as long as
\* the connection stays open. Nothing obliges a connection to drop.
FairSpec ==
    /\ Init
    /\ [][Next]_vars
    /\ \A i \in Sessions : WF_vars(ClientStep(i)) /\ WF_vars(PeerReply(i))
    /\ WF_vars(MainMerge)

\* The same with --video-out, where the setup of a session can raise.
NextVideo ==
    \/ Next
    \/ MainRaise

SpecVideo == InitVideo /\ [][NextVideo]_vars

\* ==== properties of the harness (checked under Spec) ======================
\* A step of session i or of its endpoint.
SessionStep(i) ==
    \/ StartSession(i)
    \/ ConnectRefused(i)
    \/ Connected(i)
    \/ SendFrame(i)
    \/ RecvReply(i)
    \/ CloseSession(i)
    \/ PeerAccept(i)
    \/ PeerReply(i)

\* Sum of f over the set S.
RECURSIVE SumOver(_, _)
SumOver(f, S) ==
    IF S = {} THEN 0
    ELSE LET x == CHOOSE y \in S : TRUE IN f[x] + SumOver(f, S \ {x})

\* The positions of the records of client i.
RowsOf(records, i) == {k \in DOMAIN records : records[k].client_id = i}

\* C1: at most one frame of a session is outstanding: frames sent minus
\* replies received is 0 or 1, at most one message of the session is in
\* flight, and at the loop top (where the next frame is sent) every frame
\* sent has been answered.
OneOutstanding ==
    \A i \in Sessions :
        /\ sent[i] - recvd[i] \in {0, 1}
        /\ Len(c2s[i]) + Len(s2c[i]) <= 1
        /\ (pc[i] = "loop" => sent[i] = recvd[i])

OneOutstandingWitness ==
    \E i \in Sessions : sent[i] = 2 /\ recvd[i] = 1 /\ pc[i] = "recv"

\* C2: the frame values of a session's records are 1, 2, ..., k in that
\* order, and a session that has ended (on an error or not) gets no further
\* record.
FrameSequence ==
    /\ [](\A i \in Sessions : \A k \in 1 .. Len(bench[i]) : bench[i][k].frame = k)
    /\ [][\A i \in Sessions : pc[i] = "done" => bench'[i] = bench[i]]_vars

FrameSequenceWitness ==
    \E i, j \in Sessions :
        /\ Len(bench[i]) = 2
        /\ status[j] = "dropped" /\ Len(bench[j]) = 1 /\ sent[j] = 2

\* C3: main merges, saves and returns only after every session is done, and
\* a session that is not done can always take a step of its own, whatever
\* state (slow, failed) the other sessions are in.
GatherBarrier ==
    /\ (mpc # "gather" => \A i \in Sessions : pc[i] = "done")
    /\ (mpc = "gather" =>
           all_benchmarks = <<>> /\ ~file.exists /\ summary = <<>> /\ fileWrites = 0)
    /\ \A i \in Sessions : pc[i] # "done" => ENABLED SessionStep(i)

GatherBarrierWitness ==
    /\ mpc = "done"
    /\ \E i, j \in Sessions :
          /\ status[i] = "dropped"
          /\ status[j] = "completed" /\ Len(bench[j]) = NumFrames

\* C4: when every session streamed the whole source, the merged list has
\* NumClients x NumFrames records and each client id is on NumFrames of them.
CompleteRunCounts ==
    (mpc = "done" /\ \A i \in Sessions : status[i] = "completed") =>
        /\ Len(all_benchmarks) = NumClients * NumFrames
        /\ \A i \in Sessions : Cardinality(RowsOf(all_benchmarks, i)) = NumFrames

CompleteRunCountsWitness ==
    /\ mpc = "done"
    /\ \A i \in Sessions : status[i] = "completed"
    /\ Len(all_benchmarks) = NumClients * NumFrames

\* C6: a connection error ends the session it happens in and changes
\* nothing of any other session, which still records every frame when it
\* completes; the session that failed never sends or connects again.
ConnectionErrorContained ==
    /\ [](\A j \in Sessions : status[j] = "completed" => Len(bench[j]) = NumFrames)
    /\ [][\A i \in Sessions :
            /\ (status[i] = "running" /\ status'[i] \in {"refused", "dropped"}) =>
                  /\ pc'[i] = "done"
                  /\ \A j \in Sessions \ {i} :
                        /\ pc'[j] = pc[j] /\ status'[j] = status[j]
                        /\ bench'[j] = bench[j] /\ idx'[j] = idx[j]
                        /\ conn'[j] = conn[j] /\ c2s'[j] = c2s[j] /\ s2c'[j] = s2c[j]
            /\ (status[i] \in {"refused", "dropped"} =>
                  /\ pc'[i] = "done" /\ status'[i] = status[i]
                  /\ sent'[i] = sent[i] /\ conn'[i] = "closed"
                  /\ bench'[i] = bench[i])]_vars

ConnectionErrorContainedWitness ==
    \E i, j \in Sessions :
        /\ status[i] = "refused"
        /\ status[j] = "completed" /\ Len(bench[j]) = NumFrames

\* C9: a session whose connection was refused has sent no frame, read none
\* and holds no record; main can still merge, and the summary it prints is
\* the summary of the records of the other sessions (nothing when there are
\* none).
RefusedSessionEmpty ==
    LET refused == {i \in Sessions : status[i] = "refused"}
        others == Sessions \ refused
    IN /\ \A i \in refused :
             pc[i] = "done" /\ bench[i] = <<>> /\ sent[i] = 0 /\ capPos[i] = 0
       /\ (refused # {} /\ Gathered /\ mpc = "gather") => ENABLED MainMerge
       /\ (refused # {} /\ mpc = "done") =>
             /\ Len(all_benchmarks) = SumOver(recvd, others)
             /\ \A i \in others : Cardinality(RowsOf(all_benchmarks, i)) = Len(bench[i])
             /\ IF SumOver(recvd, others) = 0 THEN summary = <<>>
                ELSE /\ Len(summary) = 1
                     /\ summary[1].count = SumOver(recvd, others)

RefusedSessionEmptyWitness ==
    /\ mpc = "done"
    /\ status[0] = "refused"
    /\ \E j \in Sessions : status[j] = "completed"
    /\ Len(summary) = 1 /\ summary[1].count = NumFrames

\* C10 as stated: every run that returns has written the benchmark file
\* once, with one row per merged record.
FileWrittenEveryRun ==
    mpc = "done" =>
        /\ fileWrites = 1
        /\ file.exists
        /\ Len(file.rows) = Len(all_benchmarks)

\* C10, amended: a run that returns with a merged list that is not empty has
\* written the file once, after the merge, with the header client_id, frame,
\* delay_ms, fps and the merged records as rows, one per completed round
\* trip; a run whose merged list is empty has written no file.
FileWrittenWhenRecords ==
    /\ (mpc # "done" => fileWrites = 0 /\ ~file.exists)
    /\ (mpc = "done" /\ all_benchmarks # <<>>) =>
          /\ fileWrites = 1
          /\ file.exists
          /\ file.header = <<"client_id", "frame", "delay_ms", "fps">>
          /\ file.rows = all_benchmarks
          /\ Len(file.rows) = SumOver(recvd, Sessions)
    /\ (mpc = "done" /\ all_benchmarks = <<>>) => (fileWrites = 0 /\ ~file.exists)

FileWrittenWhenRecordsWitness ==
    /\ mpc = "done"
    /\ fileWrites = 1
    /\ Len(file.rows) = 3
    /\ \E i \in Sessions : status[i] = "dropped"

\* C12: a session has one record per reply received, never one per frame
\* sent; and a session waiting for a reply on a connection that has been
\* closed sends nothing more: the next step it takes ends it as dropped,
\* with the record list as it was, one shorter than the frames it sent.
FrameAbandoned ==
    /\ [](\A i \in Sessions : Len(bench[i]) = recvd[i] /\ recvd[i] <= sent[i])
    /\ [][\A i \in Sessions :
            (pc[i] = "recv" /\ conn[i] = "closed" /\ s2c[i] = <<>>) =>
                /\ sent'[i] = sent[i]
                /\ bench'[i] = bench[i]
                /\ (pc'[i] # pc[i] =>
                      /\ pc'[i] = "done"
                      /\ status'[i] = "dropped"
                      /\ Len(bench'[i]) = sent'[i] - 1)]_vars

\* A session ended by a drop during its second round trip holds the record
\* of the first alone, and main has merged it.
FrameAbandonedWitness ==
    \E i \in Sessions :
        /\ status[i] = "dropped" /\ pc[i] = "done"
        /\ sent[i] = 2 /\ recvd[i] = 1 /\ Len(bench[i]) = 1
        /\ mpc = "done"

\* The step changes nothing that belongs to a session other than i: its
\* locals, its connection and the messages in flight on it.
OnlyTouches(i) ==
    /\ (pc' = pc \/ \A j \in Sessions : j = i \/ pc'[j] = pc[j])
    /\ (conn' = conn \/ \A j \in Sessions : j = i \/ conn'[j] = conn[j])
    /\ (c2s' = c2s \/ \A j \in Sessions : j = i \/ c2s'[j] = c2s[j])
    /\ (s2c' = s2c \/ \A j \in Sessions : j = i \/ s2c'[j] = s2c[j])
    /\ (status' = status \/ \A j \in Sessions : j = i \/ status'[j] = status[j])
    /\ (idx' = idx \/ \A j \in Sessions : j = i \/ idx'[j] = idx[j])
    /\ (bench' = bench \/ \A j \in Sessions : j = i \/ bench'[j] = bench[j])
    /\ (cap' = cap \/ \A j \in Sessions : j = i \/ cap'[j] = cap[j])
    /\ (capPos' = capPos \/ \A j \in Sessions : j = i \/ capPos'[j] = capPos[j])
    /\ (writer' = writer \/ \A j \in Sessions : j = i \/ writer'[j] = writer[j])
    /\ (buf' = buf \/ \A j \in Sessions : j = i \/ buf'[j] = buf[j])
    /\ (sent' = sent \/ \A j \in Sessions : j = i \/ sent'[j] = sent[j])
    /\ (recvd' = recvd \/ \A j \in Sessions : j = i \/ recvd'[j] = recvd[j])
    /\ (errlog' = errlog \/ errlog' \ errlog = {i})

\* C15: every step short of main's merge belongs to one session i: it
\* changes nothing (position, frame index, records, connection, terminal
\* status, ...) of any other session, writes no error line but i's, and
\* leaves main's merged list, file and summary alone; the record list of
\* session i grows only by one record tagged i, in a step of i from its
\* receive; and the merged list is built by a step taken when every session
\* is done, which changes no session.
SessionsIsolated ==
    /\ [][IF mpc' # mpc
            THEN /\ \A i \in Sessions : pc[i] = "done"
                 /\ UNCHANGED <<sessVars, netVars>>
            ELSE /\ all_benchmarks' = all_benchmarks /\ file' = file
                 /\ fileWrites' = fileWrites /\ summary' = summary
                 /\ \E i \in Sessions :
                      /\ OnlyTouches(i)
                      /\ bench' # bench =>
                            /\ pc[i] = "recv" /\ pc'[i] = "loop"
                            /\ bench'[i] # bench[i]
                            /\ Len(bench'[i]) = Len(bench[i]) + 1
                            /\ SubSeq(bench'[i], 1, Len(bench[i])) = bench[i]
                            /\ bench'[i][Len(bench'[i])].client_id = i]_vars
    /\ [](mpc = "gather" => all_benchmarks = <<>>)

\* A session is in its second round trip, with one record, after the other
\* session lost its connection with one record of its own.
SessionsIsolatedWitness ==
    \E i, j \in Sessions :
        /\ i # j
        /\ pc[i] = "recv" /\ Len(bench[i]) = 1 /\ conn[i] = "open"
        /\ status[j] = "dropped" /\ Len(bench[j]) = 1
        /\ mpc = "gather"

\* Records of the sessions before session i.
Offset(i) == SumOver([j \in Sessions |-> Len(bench[j])], 0 .. (i - 1))

\* C17: every record of session i carries client_id i, an id of
\* 0 .. NumClients-1; and once main has merged, the merged list is the lists
\* of sessions 0, 1, ... one after the other: record k of session i is at
\* position Offset(i) + k, client ids never decrease along the list and
\* within one client id the frame numbers increase.
MergeOrder ==
    /\ \A i \in Sessions : \A k \in DOMAIN bench[i] : bench[i][k].client_id = i
    /\ mpc = "done" =>
          /\ Len(all_benchmarks) = Offset(NumClients)
          /\ \A i \in Sessions : \A k \in DOMAIN bench[i] :
                all_benchmarks[Offset(i) + k] = bench[i][k]
          /\ \A m, n \in DOMAIN all_benchmarks :
                m < n =>
                  \/ all_benchmarks[m].client_id < all_benchmarks[n].client_id
                  \/ /\ all_benchmarks[m].client_id = all_benchmarks[n].client_id
                     /\ all_benchmarks[m].frame < all_benchmarks[n].frame

\* The merged list of a run in which session 0 streamed the whole source
\* and the last session lost its connection after one record.
MergeOrderWitness ==
    /\ mpc = "done"
    /\ status[0] = "completed" /\ Len(bench[0]) = NumFrames
    /\ status[NumClients - 1] = "dropped" /\ Len(bench[NumClients - 1]) = 1
    /\ all_benchmarks[Len(all_benchmarks)].client_id = NumClients - 1
    /\ all_benchmarks[1].client_id = 0

\* Session i awaits a reply that is not there, on an open connection.
AwaitingReply(i) == pc[i] = "recv" /\ conn[i] = "open" /\ s2c[i] = <<>>

\* C18: when the event loop is fair and the endpoint answers every frame
\* whose connection stays open, every session is eventually done and main
\* eventually returns; and a session that awaits a reply on an open
\* connection has no step of its own to take (no timeout ends the wait), and
\* main, still in gather, cannot return.
RunTerminates ==
    /\ \A i \in Sessions : <>(pc[i] = "done")
    /\ <>(mpc = "done")
    /\ [](\A i \in Sessions :
            AwaitingReply(i) =>
                /\ ~ENABLED ClientStep(i)
                /\ mpc = "gather"
                /\ ~ENABLED MainMerge)

\* The run has returned: one session completed, and the first reply of
\* session 0 never came because its connection closed.
RunTerminatesWitness ==
    /\ mpc = "done"
    /\ status[0] = "dropped" /\ sent[0] = 1 /\ recvd[0] = 0
    /\ \E j \in Sessions : status[j] = "completed" /\ recvd[j] = NumFrames

\* C7 on the harness: the records of a session whose connection dropped are
\* in the merged list, the saved file and the summary.
PartialRecordsMerged ==
    \A i \in Sessions :
        (mpc = "done" /\ status[i] = "dropped" /\ bench[i] # <<>>) =>
            /\ \A k \in DOMAIN bench[i] :
                  \E m \in DOMAIN all_benchmarks : all_benchmarks[m] = bench[i][k]
            /\ file.exists /\ file.rows = all_benchmarks
            /\ Len(summary) = 1 /\ summary[1].count = Len(all_benchmarks)

\* ---- main.py: ws_stream(websocket) and infer on the executor ------------
\* cv2.imdecode returns None for bytes that are no image.
Decodes(p) == p = "jpeg"

\* Connections whose infer() call is running on an executor thread.
Running == {i \in Sessions : spc[i] = "running"}

\* The default executor starts a submitted call while a thread is free.
WorkerFree == Cardinality(Running) < PoolSize

\* What ws_stream answers to a message: {"error": "invalid image"} when it
\* does not decode, else {"detections": infer(frame)}.
ReplyFor(p) == IF Decodes(p) THEN "detections" ELSE "error"

\* The error reply without `continue`: the handler goes on to the engine and
\* answers the same message a second time.
AfterDecodeErrorFallThrough(i) == "submitted"

\* `break` in place of `continue` after the error reply.
AfterDecodeErrorBreak(i) == "closed"

\* `await websocket.send_json({"error": ...})` is followed by `continue`:
\* the handler is back at receive_bytes.
AfterDecodeError(i) == "recv"

\* await websocket.accept()
ServerAccept(i) ==
    /\ conn[i] = "connecting"
    /\ spc[i] = "none"
    /\ conn' = [conn EXCEPT ![i] = "open"]
    /\ spc' = [spc EXCEPT ![i] = "recv"]
    /\ UNCHANGED <<cfgVars, sessVars, c2s, s2c, mainVars>>
    /\ UNCHANGED <<srvRecvd, errReplies, detReplies, inferCalls>>

\* data = await websocket.receive_bytes(); imdecode; on None send the error
\* reply and continue, else hand infer to the executor.
ServerRecv(i) ==
    /\ spc[i] = "recv"
    /\ c2s[i] # <<>>
    /\ c2s' = [c2s EXCEPT ![i] = Tail(@)]
    /\ srvRecvd' = [srvRecvd EXCEPT ![i] = @ + 1]
    /\ IF Decodes(Head(c2s[i]))
         THEN /\ spc' = [spc EXCEPT ![i] = "submitted"]
              /\ UNCHANGED <<s2c, errReplies>>
         ELSE /\ s2c' = [s2c EXCEPT ![i] = Append(@, "error")]
              /\ errReplies' = [errReplies EXCEPT ![i] = @ + 1]
              /\ spc' = [spc EXCEPT ![i] = AfterDecodeError(i)]
    /\ UNCHANGED <<cfgVars, sessVars, conn, mainVars, detReplies, inferCalls>>

\* receive_bytes raises WebSocketDisconnect: pass, the handler returns.
ServerDisconnect(i) ==
    /\ spc[i] = "recv"
    /\ conn[i] = "closed"
    /\ spc' = [spc EXCEPT ![i] = "closed"]
    /\ UNCHANGED <<cfgVars, sessVars, netVars, mainVars>>
    /\ UNCHANGED <<srvRecvd, errReplies, detReplies, inferCalls>>

\* An executor thread takes the call: infer(frame) begins.
WorkerStart(i) ==
    /\ spc[i] = "submitted"
    /\ WorkerFree
    /\ spc' = [spc EXCEPT ![i] = "running"]
    /\ inferCalls' = [inferCalls EXCEPT ![i] = @ + 1]
    /\ UNCHANGED <<cfgVars, sessVars, netVars, mainVars>>
    /\ UNCHANGED <<srvRecvd, errReplies, detReplies>>

\* infer returns its detections; or it raises, `except Exception` prints
\* and the handler returns, which closes the connection.
WorkerFinish(i) ==
    /\ spc[i] = "running"
    /\ \/ /\ spc' = [spc EXCEPT ![i] = "inferred"]
          /\ UNCHANGED netVars
       \/ /\ spc' = [spc EXCEPT ![i] = "closed"]
          /\ conn' = [conn EXCEPT ![i] = "closed"]
          /\ c2s' = [c2s EXCEPT ![i] = <<>>]
          /\ UNCHANGED s2c
    /\ UNCHANGED <<cfgVars, sessVars, mainVars>>
    /\ UNCHANGED <<srvRecvd, errReplies, detReplies, inferCalls>>

\* await websocket.send_json({"detections": detections}); on a closed
\* connection the send raises and the handler returns.
ServerReply(i) ==
    /\ spc[i] = "inferred"
    /\ IF conn[i] = "open"
         THEN /\ s2c' = [s2c EXCEPT ![i] = Append(@, "detections")]
              /\ detReplies' = [detReplies EXCEPT ![i] = @ + 1]
              /\ spc' = [spc EXCEPT ![i] = "recv"]
         ELSE /\ spc' = [spc EXCEPT ![i] = "closed"]
              /\ UNCHANGED <<s2c, detReplies>>
    /\ UNCHANGED <<cfgVars, sessVars, conn, c2s, mainVars>>
    /\ UNCHANGED <<srvRecvd, errReplies, inferCalls>>

\* ---- specification of the server (main.py under its clients) -------------
\* A client of the server, as test.py and client.py are: send one frame,
\* then wait for its reply.
WsSend(i) ==
    /\ conn[i] = "open"
    /\ sent[i] = recvd[i]
    /\ sent[i] < NumFrames
    /\ \E p \in Payloads :
          /\ buf' = [buf EXCEPT ![i] = p]
          /\ c2s' = [c2s EXCEPT ![i] = Append(@, p)]
    /\ sent' = [sent EXCEPT ![i] = @ + 1]
    /\ UNCHANGED <<cfgVars, pc, status, cap, capPos, writer, idx, bench, recvd, errlog>>
    /\ UNCHANGED <<conn, s2c, srvVars, mainVars>>

WsRecv(i) ==
    /\ s2c[i] # <<>>
    /\ s2c' = [s2c EXCEPT ![i] = Tail(@)]
    /\ recvd' = [recvd EXCEPT ![i] = @ + 1]
    /\ buf' = [buf EXCEPT ![i] = "none"]
    /\ UNCHANGED <<cfgVars, pc, status, cap, capPos, writer, idx, bench, sent, errlog>>
    /\ UNCHANGED <<conn, c2s, srvVars, mainVars>>

\* The client leaves `async with` (end of the source, or an exception), or
\* the connection is lost.
WsClose(i) ==
    /\ conn[i] = "open"
    /\ conn' = [conn EXCEPT ![i] = "closed"]
    /\ c2s' = [c2s EXCEPT ![i] = <<>>]
    /\ s2c' = [s2c EXCEPT ![i] = <<>>]
    /\ UNCHANGED <<cfgVars, sessVars, srvVars, mainVars>>

\* The server is up and its clients are dialling /ws/stream.
InitServer ==
    /\ videoOut = FALSE
    /\ outDirOK = TRUE
    /\ writerOK = TRUE
    /\ conn = [i \in Sessions |-> "connecting"]
    /\ InitIdle

NextServer ==
    \E i \in Sessions :
        \/ WsSend(i)
        \/ WsRecv(i)
        \/ WsClose(i)
        \/ ServerAccept(i)
        \/ ServerRecv(i)
        \/ ServerDisconnect(i)
        \/ WorkerStart(i)
        \/ WorkerFinish(i)
        \/ ServerReply(i)

SpecServer == InitServer /\ [][NextServer]_vars

\* ==== properties of the harness with --video-out (checked under SpecVideo) ==
\* C13: a session that ended at the end of its source, on a refused
\* connection or on a dropped one is done with its VideoCapture released and
\* its VideoWriter released; the one that ended on an error has its error
\* line written under its client id, the one that completed has none; and
\* until a session is done its source stays open.
ResourcesReleased ==
    \A i \in Sessions :
        /\ status[i] \in {"completed", "refused", "dropped"} =>
              /\ pc[i] = "done"
              /\ cap[i] = "released"
              /\ writer[i] = "released"
              /\ (status[i] = "completed" <=> i \notin errlog)
        /\ pc[i] \in {"connecting", "loop", "recv", "closing"} =>
              /\ cap[i] = "open"
              /\ writer[i] \in {"open", "unopened"}
              /\ i \notin errlog

\* One session streamed its whole source, the other lost its connection
\* after its first record.
ResourcesReleasedWitness ==
    \E i, j \in Sessions :
        /\ status[i] = "completed" /\ Len(bench[i]) = NumFrames
        /\ status[j] = "dropped" /\ Len(bench[j]) = 1
        /\ cap[j] = "released" /\ writer[j] = "released" /\ j \in errlog

\* C14 as stated: a session whose source did not open, whose output
\* directory could not be made or whose VideoWriter did not open has sent no
\* frame and holds no record, and its error has been reported: by its error
\* line, or by the exception that leaves stream_video.
SetupErrorFatal ==
    \A i \in Sessions :
        (\/ status[i] \in {"nosource", "raised"}
         \/ writer[i] = "unopened") =>
            /\ sent[i] = 0
            /\ bench[i] = <<>>
            /\ pc[i] = "done"
            /\ (status[i] = "raised" \/ i \in errlog)

\* ==== properties of the server (checked under SpecServer) ==================
\* C5 as stated: at most one engine invocation is in progress at any time.
EngineSerialized == Cardinality(Running) <= 1

Replies(i) == errReplies[i] + detReplies[i]

\* C11: on each connection the handler answers a message before it receives
\* the next one, with exactly one reply: whenever it is at receive_bytes it
\* has sent as many replies as it has received messages, it is never more
\* than one reply behind and never sends more replies than the client sent
\* frames; and the k-th reply a client receives arrives when it has sent
\* exactly k frames and is the reply to the frame it sent last, whatever the
\* other connections and the executor are doing.
ReplyOrder ==
    /\ [](\A i \in Sessions :
            /\ srvRecvd[i] <= sent[i]
            /\ Replies(i) <= srvRecvd[i]
            /\ srvRecvd[i] - Replies(i) \in {0, 1}
            /\ (spc[i] = "recv" => Replies(i) = srvRecvd[i])
            /\ (spc[i] \in {"submitted", "running", "inferred"} =>
                   Replies(i) = srvRecvd[i] - 1)
            /\ recvd[i] + Len(s2c[i]) <= Replies(i)
            /\ Len(s2c[i]) <= 1)
    /\ [][\A i \in Sessions :
            recvd'[i] = recvd[i] + 1 =>
                /\ recvd'[i] = sent[i]
                /\ Replies(i) = sent[i]
                /\ Head(s2c[i]) = ReplyFor(buf[i])]_vars

\* One client has received the replies to both its frames, an error reply
\* and a detection, while the other connection's second call is running on
\* the executor.
ReplyOrderWitness ==
    \E i, j \in Sessions :
        /\ i # j
        /\ recvd[i] = 2 /\ errReplies[i] = 1 /\ detReplies[i] = 1
        /\ sent[j] = 2 /\ recvd[j] = 1 /\ spc[j] = "running"


\* ---- client.py: stream_video() ---------------------------------------------
\* client.py runs one session, against the server of main.py (WS_URL is
\* port 8000); it is session 0 of the state above. Every error path ends
\* in sys.exit: pc "exited".
Me == 0

\* Its records carry no client_id.
ClientRecord(frame, delay_us) ==
    [frame |-> frame, delay_ms |-> delay_us, fps |-> InstFps(delay_us)]

\* csv.DictWriter(f, fieldnames=["frame", "delay_ms", "fps"])
ClientSavedFile(records) ==
    [exists |-> TRUE, header |-> <<"frame", "delay_ms", "fps">>, rows |-> records]

\* sys.exit after `finally` has released cap and writer.
ClientExit(why) ==
    /\ pc' = [pc EXCEPT ![Me] = "exited"]
    /\ status' = [status EXCEPT ![Me] = why]
    /\ errlog' = errlog \cup {Me}
    /\ cap' = [cap EXCEPT ![Me] = "released"]
    /\ writer' = [writer EXCEPT ![Me] = "released"]
    /\ buf' = [buf EXCEPT ![Me] = "none"]

\* Lines 83-106, up to the await of websockets.connect.
ClientStart ==
    /\ pc[Me] = "start"
    /\ \/ \* cap.isOpened() is false: sys.exit
          /\ pc' = [pc EXCEPT ![Me] = "exited"]
          /\ status' = [status EXCEPT ![Me] = "nosource"]
          /\ errlog' = errlog \cup {Me}
          /\ cap' = [cap EXCEPT ![Me] = "unopened"]
          /\ UNCHANGED <<writer, conn>>
       \/ \* writer.isOpened() is false: cap.release(), sys.exit
          /\ ~writerOK
          /\ pc' = [pc EXCEPT ![Me] = "exited"]
          /\ status' = [status EXCEPT ![Me] = "nowriter"]
          /\ errlog' = errlog \cup {Me}
          /\ cap' = [cap EXCEPT ![Me] = "released"]
          /\ writer' = [writer EXCEPT ![Me] = "unopened"]
          /\ UNCHANGED conn
       \/ /\ writerOK
          /\ pc' = [pc EXCEPT ![Me] = "connecting"]
          /\ cap' = [cap EXCEPT ![Me] = "open"]
          /\ writer' = [writer EXCEPT ![Me] = "open"]
          /\ conn' = [conn EXCEPT ![Me] = "connecting"]
          /\ UNCHANGED <<status, errlog>>
    /\ UNCHANGED <<cfgVars, capPos, idx, bench, sent, recvd, buf>>
    /\ UNCHANGED <<c2s, s2c, srvVars, mainVars>>

\* except ConnectionRefusedError: print, sys.exit(1)
ClientConnectRefused ==
    /\ pc[Me] = "connecting"
    /\ conn[Me] = "connecting"
    /\ ClientExit("refused")
    /\ conn' = [conn EXCEPT ![Me] = "closed"]
    /\ UNCHANGED <<cfgVars, capPos, idx, bench, sent, recvd, c2s, s2c>>
    /\ UNCHANGED <<srvVars, mainVars>>

ClientConnected ==
    /\ pc[Me] = "connecting"
    /\ conn[Me] # "connecting"
    /\ pc' = [pc EXCEPT ![Me] = "loop"]
    /\ idx' = [idx EXCEPT ![Me] = 0]
    /\ UNCHANGED <<cfgVars, status, cap, capPos, writer, bench, sent, recvd, buf, errlog>>
    /\ UNCHANGED <<netVars, srvVars, mainVars>>

\* Loop top to `await ws.send`.
ClientSendFrame ==
    /\ pc[Me] = "loop"
    /\ \/ /\ capPos[Me] = NumFrames
          /\ pc' = [pc EXCEPT ![Me] = "closing"]
          /\ UNCHANGED <<status, cap, capPos, writer, sent, buf, errlog, conn, c2s, s2c>>
       \/ /\ capPos[Me] < NumFrames
          /\ conn[Me] = "open"
          /\ \E p \in Payloads :
                /\ buf' = [buf EXCEPT ![Me] = p]
                /\ c2s' = [c2s EXCEPT ![Me] = Append(@, p)]
          /\ capPos' = [capPos EXCEPT ![Me] = @ + 1]
          /\ sent' = [sent EXCEPT ![Me] = @ + 1]
          /\ pc' = [pc EXCEPT ![Me] = "recv"]
          /\ UNCHANGED <<status, cap, writer, errlog, conn, s2c>>
       \/ \* except websockets.exceptions.ConnectionClosed: print, sys.exit(1)
          /\ capPos[Me] < NumFrames
          /\ conn[Me] = "closed"
          /\ capPos' = [capPos EXCEPT ![Me] = @ + 1]
          /\ ClientExit("dropped")
          /\ UNCHANGED <<sent, conn, c2s, s2c>>
    /\ UNCHANGED <<cfgVars, idx, bench, recvd>>
    /\ UNCHANGED <<srvVars, mainVars>>

\* `msg = await ws.recv()` to the end of the loop body.
ClientRecvReply ==
    /\ pc[Me] = "recv"
    /\ \/ /\ s2c[Me] # <<>>
          /\ s2c' = [s2c EXCEPT ![Me] = Tail(@)]
          /\ recvd' = [recvd EXCEPT ![Me] = @ + 1]
          /\ \E d \in DelayChoices :
                bench' = [bench EXCEPT ![Me] = Append(@, ClientRecord(idx[Me] + 1, d))]
          /\ idx' = [idx EXCEPT ![Me] = @ + 1]
          /\ buf' = [buf EXCEPT ![Me] = "none"]
          /\ pc' = [pc EXCEPT ![Me] = "loop"]
          /\ UNCHANGED <<status, cap, writer, errlog>>
       \/ \* except websockets.exceptions.ConnectionClosed: print, sys.exit(1)
          /\ s2c[Me] = <<>>
          /\ conn[Me] = "closed"
          /\ ClientExit("dropped")
          /\ UNCHANGED <<s2c, recvd, bench, idx>>
    /\ UNCHANGED <<cfgVars, capPos, sent, conn, c2s>>
    /\ UNCHANGED <<srvVars, mainVars>>

\* After break: the connection is closed, finally releases cap and writer,
\* then save_benchmark(bench, BENCH_OUT) and print_benchmark_summary(bench).
ClientFinish ==
    /\ pc[Me] = "closing"
    /\ pc' = [pc EXCEPT ![Me] = "done"]
    /\ status' = [status EXCEPT ![Me] = "completed"]
    /\ cap' = [cap EXCEPT ![Me] = "released"]
    /\ writer' = [writer EXCEPT ![Me] = "released"]
    /\ conn' = [conn EXCEPT ![Me] = "closed"]
    /\ c2s' = [c2s EXCEPT ![Me] = <<>>]
    /\ file' = ClientSavedFile(bench[Me])
    /\ fileWrites' = fileWrites + 1
    /\ summary' = Summarize(bench[Me])
    /\ UNCHANGED <<cfgVars, capPos, idx, bench, sent, recvd, buf, errlog, s2c>>
    /\ UNCHANGED <<srvVars, mpc, all_benchmarks>>

\* client.py always writes the annotated video.
InitClient ==
    /\ videoOut = TRUE
    /\ outDirOK = TRUE
    /\ writerOK \in BOOLEAN
    /\ conn = [i \in Sessions |-> "none"]
    /\ InitIdle

NextClient ==
    \/ ClientStart
    \/ ClientConnectRefused
    \/ ClientConnected
    \/ ClientSendFrame
    \/ ClientRecvReply
    \/ ClientFinish
    \/ Drop(Me)
    \/ ServerAccept(Me)
    \/ ServerRecv(Me)
    \/ ServerDisconnect(Me)
    \/ WorkerStart(Me)
    \/ WorkerFinish(Me)
    \/ ServerReply(Me)

SpecClient == InitClient /\ [][NextClient]_vars

\* ==== properties of client.py (checked under SpecClient) ===================
\* C7 as stated: the records a session appended before its connection
\* dropped are in the persisted benchmark output and in the summary.
PartialRecordsPersisted ==
    (status[Me] = "dropped" /\ bench[Me] # <<>>) =>
        /\ file.exists
        /\ file.rows = bench[Me]
        /\ Len(summary) = 1 /\ summary[1].count = Len(bench[Me])

\* ---- the arithmetic of a record (test.py, lines 134-154) ----------------
\* (t1 - t0) as a whole number of microseconds: every short time, and the
\* times of a fast, a usual and a one-second round trip.
Delays == (0 .. MaxDelayUs) \cup {1500, 33333, 1000000}

\* One round trip of session 0 timed and recorded: t0, send, recv, t1,
\* delay_ms, inst_fps, bench.append, idx += 1.
TimeRoundTrip ==
    /\ idx[Me] < NumFrames
    /\ \E d \in Delays :
          bench' = [bench EXCEPT ![Me] = Append(@, BenchRecord(Me, FrameNo(Me), d))]
    /\ idx' = [idx EXCEPT ![Me] = @ + 1]
    /\ UNCHANGED <<cfgVars, pc, status, cap, capPos, writer, sent, recvd, buf, errlog>>
    /\ UNCHANGED <<netVars, srvVars, mainVars>>

SpecTiming == Init /\ [][TimeRoundTrip]_vars

\* ==== properties of a record (checked under SpecTiming) ===================
\* fps (thousandths) is 1000 / delay_ms to within half a thousandth.
FpsWithinRounding(rec) ==
    LET e == rec.fps * rec.delay_ms - 1000000000
    IN 2 * (IF e < 0 THEN 0 - e ELSE e) <= rec.delay_ms

\* C16 as stated: every record has delay_ms > 0 and fps = 1000 / delay_ms
\* within rounding, and fps 0 when its delay_ms is 0.
DelayPositive ==
    \A k \in DOMAIN bench[Me] :
        /\ bench[Me][k].delay_ms > 0
        /\ FpsWithinRounding(bench[Me][k])
        /\ (bench[Me][k].delay_ms = 0 => bench[Me][k].fps = 0)

\* C16, amended: every record has delay_ms >= 0; when its delay_ms is
\* positive its fps is 1000 / delay_ms within rounding, and when its
\* delay_ms is 0 its fps is 0.
RecordArithmetic ==
    \A k \in DOMAIN bench[Me] :
        /\ bench[Me][k].delay_ms >= 0
        /\ bench[Me][k].fps >= 0
        /\ (bench[Me][k].delay_ms > 0 => FpsWithinRounding(bench[Me][k]))
        /\ (bench[Me][k].delay_ms = 0 => bench[Me][k].fps = 0)

\* A record of delay 0 with fps 0 next to one of 0.007 ms with fps
\* 142857.143.
RecordArithmeticWitness ==
    /\ Len(bench[Me]) = 2
    /\ bench[Me][1].delay_ms = 0 /\ bench[Me][1].fps = 0
    /\ bench[Me][2].delay_ms = 7 /\ bench[Me][2].fps = 142857143

====
